---- MODULE Spec2Model ----
(***************************************************************************)
(* CodeBuildConstruct (comfyui_aws_stack/construct/codebuild_construct.py) *)
(* and the life of what it declares: the stack is deployed, the build      *)
(* project runs its build-spec command by command against the registry and *)
(* the asset, and the stack is torn down.                                  *)
(*                                                                         *)
(* variant "v1" is the construct of codebuild_construct.py.  variant "v2"  *)
(* is the suffix-parameterised revision, which is not among the sources;   *)
(* its definitions (named ...V2) follow the written specification.         *)
(***************************************************************************)
EXTENDS Naturals, Sequences, FiniteSets, TLC

(* ------------------------------ bounds -------------------------------- *)

\* Build executions started during the life of one stack.
MaxBuilds == 2

(* ------------------------------ inputs -------------------------------- *)

Variants == {"v1", "v2"}
Scopes == {"ComfyUIStack", "SandboxStack"}
ConstructIds == {"CodeBuildConstruct", "Builder"}
Accounts == {"111122223333"}
Regions == {"us-east-1", "cn-north-1"}
Suffixes == {"dev", "prod"}
AssetHashes == {"4f9c"}
SourceVersions == {"abc123"}
None == "<none>"

(* ---------------------- shell command templates ----------------------- *)

\* A word of a command is a sequence of tokens: literal text, or a variable
\* reference $NAME / ${NAME:-default}.
Lit(s) == <<"lit", s, "">>
Var(n) == <<"var", n, "">>
VarOr(n, d) == <<"var", n, d>>

Cmd(op, a, b) == [op |-> op, a |-> a, b |-> b]

VarsOfWord(w) == {w[i][2] : i \in {j \in 1..Len(w) : w[j][1] = "var"}}
VarsOfCmd(c) == VarsOfWord(c.a) \cup VarsOfWord(c.b)
VarsOfCommands(cs) == UNION {VarsOfCmd(cs[i]) : i \in 1..Len(cs)}

\* Parameter expansion of the shell: an unset or empty variable expands to
\* the default of the reference (the empty string for a plain $NAME).
Lookup(shell, n, d) == IF n \in DOMAIN shell /\ shell[n] # "" THEN shell[n] ELSE d

RECURSIVE Expand(_, _)
Expand(w, shell) ==
    IF w = <<>> THEN ""
    ELSE (IF Head(w)[1] = "lit" THEN Head(w)[2]
          ELSE Lookup(shell, Head(w)[2], Head(w)[3])) \o Expand(Tail(w), shell)

(* ------------------------- the construct (v1) ------------------------- *)

\* Stack.urlSuffix of the partition the stack's region belongs to.
UrlSuffix(region_) == IF region_ = "cn-north-1" THEN "amazonaws.com.cn" ELSE "amazonaws.com"

\* The endpoint of the account's registry in a region.
RegistryHost(account_, region_) ==
    account_ \o ".dkr.ecr." \o region_ \o "." \o UrlSuffix(region_)

RepositoryNamedById(scope_, construct_id_) ==
    [repository_name |-> "comfyui-repository-" \o construct_id_,
     removal_policy |-> "DESTROY",
     empty_on_delete |-> TRUE,
     image_scan_on_push |-> FALSE]

RepositoryKeepImages(scope_, construct_id_) ==
    [repository_name |-> "comfyui-repository",
     removal_policy |-> "DESTROY",
     empty_on_delete |-> FALSE,
     image_scan_on_push |-> FALSE]

\* ecr.Repository(self, "ComfyUIRepository", ...)
Repository(scope_, construct_id_) ==
    [repository_name |-> "comfyui-repository",
     removal_policy |-> "DESTROY",
     empty_on_delete |-> TRUE,
     image_scan_on_push |-> FALSE]

\* ecr_repository.repository_uri
RepositoryUri(repo, account_, region_) ==
    RegistryHost(account_, region_) \o "/" \o repo.repository_name

\* s3_assets.Asset(self, "DockerAsset", path="comfyui_aws_stack/docker")
Asset(account_, region_, hash) ==
    [s3_bucket_name |-> "cdk-assets-" \o account_ \o "-" \o region_,
     s3_object_key |-> hash \o ".zip"]

AssetUrl(asset) == "s3://" \o asset.s3_bucket_name \o "/" \o asset.s3_object_key


EnvironmentVariablesStaleTag(repo_uri, region_, account_, asset) ==
    [ECR_REPOSITORY_URI |-> repo_uri,
     IMAGE_TAG |-> "stable",
     AWS_DEFAULT_REGION |-> region_,
     AWS_ACCOUNT_ID |-> account_,
     DOCKER_ASSET_S3_BUCKET |-> asset.s3_bucket_name,
     DOCKER_ASSET_S3_KEY |-> asset.s3_object_key]

EnvironmentVariablesNoAssetKey(repo_uri, region_, account_, asset) ==
    [ECR_REPOSITORY_URI |-> repo_uri,
     IMAGE_TAG |-> "latest",
     AWS_DEFAULT_REGION |-> region_,
     AWS_ACCOUNT_ID |-> account_,
     DOCKER_ASSET_S3_BUCKET |-> asset.s3_bucket_name]

\* environment_variables={...} of codebuild.Project
EnvironmentVariables(repo_uri, region_, account_, asset) ==
    [ECR_REPOSITORY_URI |-> repo_uri,
     IMAGE_TAG |-> "latest",
     AWS_DEFAULT_REGION |-> region_,
     AWS_ACCOUNT_ID |-> account_,
     DOCKER_ASSET_S3_BUCKET |-> asset.s3_bucket_name,
     DOCKER_ASSET_S3_KEY |-> asset.s3_object_key]

Echo == Cmd("echo", <<>>, <<>>)

\* aws ecr get-login-password --region $AWS_DEFAULT_REGION | docker login
\*   --username AWS --password-stdin $AWS_ACCOUNT_ID.dkr.ecr.$AWS_DEFAULT_REGION.amazonaws.com
LoginCmd ==
    Cmd("login",
        <<Var("AWS_DEFAULT_REGION")>>,
        <<Var("AWS_ACCOUNT_ID"), Lit(".dkr.ecr."), Var("AWS_DEFAULT_REGION"),
          Lit(".amazonaws.com")>>)

\* aws s3 cp s3://$DOCKER_ASSET_S3_BUCKET/$DOCKER_ASSET_S3_KEY docker-context.zip
DownloadCmd ==
    Cmd("s3cp",
        <<Lit("s3://"), Var("DOCKER_ASSET_S3_BUCKET"), Lit("/"), Var("DOCKER_ASSET_S3_KEY")>>,
        <<Lit("docker-context.zip")>>)

\* unzip docker-context.zip -d docker-context
UnzipCmd == Cmd("unzip", <<Lit("docker-context.zip")>>, <<Lit("docker-context")>>)

\* cd docker-context
CdCmd == Cmd("cd", <<Lit("docker-context")>>, <<>>)

\* docker build -t $ECR_REPOSITORY_URI:$IMAGE_TAG .
DockerBuildCmd ==
    Cmd("build", <<Var("ECR_REPOSITORY_URI"), Lit(":"), Var("IMAGE_TAG")>>, <<Lit(".")>>)

\* docker push $ECR_REPOSITORY_URI:$IMAGE_TAG
DockerPushCmd ==
    Cmd("push", <<Var("ECR_REPOSITORY_URI"), Lit(":"), Var("IMAGE_TAG")>>, <<>>)

PreBuildCommandsUnzipFirst == <<Echo, LoginCmd, Echo, UnzipCmd, DownloadCmd>>

\* "pre_build": {"commands": [...]}
PreBuildCommands == <<Echo, LoginCmd, Echo, DownloadCmd, UnzipCmd>>

BuildCommandsNoCd == <<Echo, Echo, DockerBuildCmd>>

\* "build": {"commands": [...]}
BuildCommands == <<Echo, Echo, CdCmd, DockerBuildCmd>>

PostBuildCommandsPushTwice == <<Echo, Echo, DockerPushCmd, DockerPushCmd>>

\* "post_build": {"commands": [...]}
PostBuildCommands == <<Echo, Echo, DockerPushCmd>>

\* codebuild.BuildSpec.from_object({...})
BuildSpec ==
    [version |-> "0.2",
     phases |-> [pre_build |-> PreBuildCommands,
                 build |-> BuildCommands,
                 post_build |-> PostBuildCommands]]

\* codebuild.Project(self, "ComfyUIBuildProject", ...): no source is given, so
\* the build starts in an empty source directory.
Project(repo_uri, region_, account_, asset) ==
    [privileged |-> TRUE,
     source |-> "NO_SOURCE",
     environment_variables |-> EnvironmentVariables(repo_uri, region_, account_, asset),
     build_spec |-> BuildSpec]

GrantsWithAdmin ==
    {[grantee |-> "ComfyUIBuildProject", actions |-> "pull_push", resource |-> "ComfyUIRepository"],
     [grantee |-> "ComfyUIBuildProject", actions |-> "read", resource |-> "DockerAsset"],
     [grantee |-> "ComfyUIBuildProject", actions |-> "*", resource |-> "*"]}

\* ecr_repository.grant_pull_push(codebuild_project);
\* docker_asset.grant_read(codebuild_project)
Grants ==
    {[grantee |-> "ComfyUIBuildProject", actions |-> "pull_push", resource |-> "ComfyUIRepository"],
     [grantee |-> "ComfyUIBuildProject", actions |-> "read", resource |-> "DockerAsset"]}

\* self.image_tag = "latest"
ImageTag == "latest"

(* ---------------- the construct (v2, from the specification) ---------- *)

\* Registry name templated with the supplied suffix; retained on teardown,
\* scanned on push.
RepositoryV2(suffix_) ==
    [repository_name |-> "comfyui-repository-" \o suffix_,
     removal_policy |-> "RETAIN",
     empty_on_delete |-> FALSE,
     image_scan_on_push |-> TRUE]

EnvironmentVariablesV2(repo_uri, region_, account_) ==
    [ECR_REPOSITORY_URI |-> repo_uri,
     AWS_DEFAULT_REGION |-> region_,
     AWS_ACCOUNT_ID |-> account_]

ResolveTagCmdNoFallback ==
    Cmd("assign", <<Lit("IMAGE_TAG")>>, <<Var("CODEBUILD_RESOLVED_SOURCE_VERSION")>>)

\* IMAGE_TAG=${CODEBUILD_RESOLVED_SOURCE_VERSION:-latest}
ResolveTagCmd ==
    Cmd("assign", <<Lit("IMAGE_TAG")>>, <<VarOr("CODEBUILD_RESOLVED_SOURCE_VERSION", "latest")>>)

FixedRef == <<Var("ECR_REPOSITORY_URI"), Lit(":latest")>>
ResolvedRef == <<Var("ECR_REPOSITORY_URI"), Lit(":"), Var("IMAGE_TAG")>>

PreBuildCommandsV2 == <<Echo, LoginCmd, ResolveTagCmd>>
BuildCommandsV2 ==
    <<Echo, Cmd("build", FixedRef, <<Lit(".")>>), Cmd("tag", FixedRef, ResolvedRef)>>
PostBuildCommandsV2 == <<Echo, Cmd("push", FixedRef, <<>>), Cmd("push", ResolvedRef, <<>>)>>

BuildSpecV2 ==
    [version |-> "0.2",
     phases |-> [pre_build |-> PreBuildCommandsV2,
                 build |-> BuildCommandsV2,
                 post_build |-> PostBuildCommandsV2]]

\* The project's source is the uploaded asset: the build starts in the
\* unpacked build context.
ProjectV2(repo_uri, region_, account_) ==
    [privileged |-> TRUE,
     source |-> "S3_ASSET",
     environment_variables |-> EnvironmentVariablesV2(repo_uri, region_, account_),
     build_spec |-> BuildSpecV2]


(* --------------------------- construction ----------------------------- *)

\* CodeBuildConstruct.__init__: the resources it declares and the handles it
\* returns.
Construct(variant_, scope_, construct_id_, suffix_, account_, region_, hash) ==
    LET repo == IF variant_ = "v1" THEN Repository(scope_, construct_id_)
                ELSE RepositoryV2(suffix_)
        uri == RepositoryUri(repo, account_, region_)
        asset == Asset(account_, region_, hash)
    IN [ecr_repository |-> repo,
        docker_asset |-> asset,
        codebuild_project |-> IF variant_ = "v1" THEN Project(uri, region_, account_, asset)
                              ELSE ProjectV2(uri, region_, account_),
        grants |-> Grants,
        image_tag |-> ImageTag]

(* ------------------------------- state -------------------------------- *)

VARIABLES
    variant, scope, construct_id, suffix, account, region,  \* what the construct is given
    ecr_repository, docker_asset, codebuild_project,        \* what it declares
    grants, image_tag,
    stack,            \* "SYNTHESIZED", "DEPLOYED", "DELETED" or "DELETE_FAILED"
    registry,         \* the deployed registry: exists, images, tags
    build,            \* the current build execution
    container,        \* the build container: shell, cwd, files, dirs, creds, images
    log,              \* the commands this execution has run, with their results
    nbuilds,          \* build executions started so far
    registryAtStart,  \* the registry as it was when this execution started
    pushed            \* every <<reference, digest>> pushed so far

inputs == <<variant, scope, construct_id, suffix, account, region>>
declared == <<ecr_repository, docker_asset, codebuild_project, grants, image_tag>>
vars == <<inputs, declared, stack, registry, build, container, log, nbuilds,
          registryAtStart, pushed>>

NoBuild == [status |-> "NONE", phase |-> "NONE", pc |-> 0, failed |-> FALSE,
            source_version |-> None]
NoContainer == [shell |-> <<>>, cwd |-> "", files |-> {}, dirs |-> {}, creds |-> {},
                images |-> {}]
NoRegistry == [exists |-> FALSE, images |-> {}, tags |-> {}]

Init ==
    /\ variant \in Variants
    /\ scope \in Scopes
    /\ construct_id \in ConstructIds
    /\ suffix \in (IF variant = "v2" THEN Suffixes ELSE {None})
    /\ account \in Accounts
    /\ region \in Regions
    /\ \E hash \in AssetHashes :
         LET c == Construct(variant, scope, construct_id, suffix, account, region, hash)
         IN /\ ecr_repository = c.ecr_repository
            /\ docker_asset = c.docker_asset
            /\ codebuild_project = c.codebuild_project
            /\ grants = c.grants
            /\ image_tag = c.image_tag
    /\ stack = "SYNTHESIZED"
    /\ registry = NoRegistry
    /\ build = NoBuild
    /\ container = NoContainer
    /\ log = <<>>
    /\ nbuilds = 0
    /\ registryAtStart = NoRegistry
    /\ pushed = {}

(* ---------------------------- deployment ------------------------------ *)

\* cdk deploy: the declared registry comes to exist, empty.
Deploy ==
    /\ stack = "SYNTHESIZED"
    /\ stack' = "DEPLOYED"
    /\ registry' = [exists |-> TRUE, images |-> {}, tags |-> {}]
    /\ UNCHANGED <<inputs, declared, build, container, log, nbuilds, registryAtStart, pushed>>

\* What deleting the stack does to a registry declared with these properties:
\* RETAIN leaves it; DESTROY deletes it, which the registry service refuses
\* while it holds images unless empty_on_delete empties it first.
AfterDelete(repo, reg) ==
    IF repo.removal_policy = "RETAIN" THEN [stack |-> "DELETED", registry |-> reg]
    ELSE IF repo.empty_on_delete \/ reg.images = {}
         THEN [stack |-> "DELETED", registry |-> NoRegistry]
         ELSE [stack |-> "DELETE_FAILED", registry |-> reg]

\* cdk destroy
Teardown ==
    /\ stack = "DEPLOYED"
    /\ build.status # "IN_PROGRESS"
    /\ LET r == AfterDelete(ecr_repository, registry)
       IN /\ stack' = r.stack
          /\ registry' = r.registry
    /\ UNCHANGED <<inputs, declared, build, container, log, nbuilds, registryAtStart, pushed>>


(* ------------------------- the build service -------------------------- *)

SrcDir == "src"
ValidTags == {"latest", "stable"} \cup SourceVersions

ActualUri == RepositoryUri(ecr_repository, account, region)

Granted(actions_, resource_) ==
    \E g \in grants :
        /\ g.grantee = "ComfyUIBuildProject"
        /\ g.actions \in {actions_, "*"}
        /\ g.resource \in {resource_, "*"}

\* The variables a build starts with: the project's, and the resolved source
\* version when the build was triggered with one.
InitialShell(project, source_version) ==
    IF source_version = None THEN project.environment_variables
    ELSE project.environment_variables @@ ("CODEBUILD_RESOLVED_SOURCE_VERSION" :> source_version)

\* A fresh container: nothing downloaded, not logged in, no local image; the
\* source directory holds a build context only when the project has a source.
FreshContainer(project, source_version) ==
    [shell |-> InitialShell(project, source_version),
     cwd |-> SrcDir,
     files |-> {},
     dirs |-> IF project.source = "S3_ASSET" THEN {SrcDir} ELSE {},
     creds |-> {},
     images |-> {}]

StartBuild ==
    /\ stack = "DEPLOYED"
    /\ build.status # "IN_PROGRESS"
    /\ nbuilds < MaxBuilds
    /\ \E sv \in (IF codebuild_project.source = "NO_SOURCE" THEN {None}
                  ELSE SourceVersions \cup {None}) :
         /\ build' = [status |-> "IN_PROGRESS", phase |-> "pre_build", pc |-> 1,
                      failed |-> FALSE, source_version |-> sv]
         /\ container' = FreshContainer(codebuild_project, sv)
    /\ log' = <<>>
    /\ nbuilds' = nbuilds + 1
    /\ registryAtStart' = registry
    /\ UNCHANGED <<inputs, declared, stack, registry, pushed>>

Running == build.status = "IN_PROGRESS"
Commands == codebuild_project.build_spec.phases[build.phase]
CurCmd == Commands[build.pc]
ArgA == Expand(CurCmd.a, container.shell)
ArgB == Expand(CurCmd.b, container.shell)

Finished(b) ==
    [b EXCEPT !.status = IF b.failed THEN "FAILED" ELSE "SUCCEEDED",
              !.phase = "COMPLETED", !.pc = 0]

PhaseAfter(p) ==
    IF p = "pre_build" THEN "build" ELSE IF p = "build" THEN "post_build" ELSE "COMPLETED"

\* The build-spec sets no on-failure, so the service's phase transitions
\* apply: a command that fails ends its phase; a failed pre_build ends the
\* build, a failed build phase still runs post_build.
Advance(b, ok) ==
    IF ok /\ b.pc < Len(Commands) THEN [b EXCEPT !.pc = b.pc + 1]
    ELSE LET b1 == [b EXCEPT !.failed = b.failed \/ ~ok]
             nxt == IF ~ok /\ b.phase = "pre_build" THEN "COMPLETED" ELSE PhaseAfter(b.phase)
         IN IF nxt = "COMPLETED" THEN Finished(b1)
            ELSE [b1 EXCEPT !.phase = nxt, !.pc = 1]

\* Version 0.2 runs all commands in one shell, so the working directory and
\* the variables a command sets are kept; version 0.1 gave each its own.
Settle(c) ==
    IF codebuild_project.build_spec.version = "0.2" THEN c
    ELSE [c EXCEPT !.cwd = SrcDir,
                   !.shell = InitialShell(codebuild_project, build.source_version)]

Entry(result) ==
    [phase |-> build.phase, pc |-> build.pc, op |-> CurCmd.op, arg |-> ArgA,
     cwd |-> container.cwd, result |-> result]

\* One command has run with this result, leaving container c and registry reg.
Step(result, c, reg) ==
    /\ log' = Append(log, Entry(result))
    /\ build' = Advance(build, result = "OK")
    /\ container' = Settle(IF result = "OK" THEN c ELSE container)
    /\ registry' = IF result = "OK" THEN reg ELSE registry
    /\ UNCHANGED <<inputs, declared, stack, nbuilds, registryAtStart>>

Path(name) == container.cwd \o "/" \o name

ExecEcho ==
    /\ Running /\ CurCmd.op = "echo"
    /\ Step("OK", container, registry)
    /\ UNCHANGED pushed

\* get-login-password needs the registry grant; docker login needs the
\* docker daemon and a host that is the registry's endpoint.
LoginResults ==
    IF ~Granted("pull_push", "ComfyUIRepository") THEN {"DENIED"}
    ELSE IF ~codebuild_project.privileged \/ ArgA # region
              \/ ArgB # RegistryHost(account, region) THEN {"ERROR"}
    ELSE {"OK", "ERROR"}

ExecLogin ==
    /\ Running /\ CurCmd.op = "login"
    /\ \E r \in LoginResults :
         Step(r, [container EXCEPT !.creds = @ \cup {ArgB}], registry)
    /\ UNCHANGED pushed

DownloadResults ==
    IF ArgA # AssetUrl(docker_asset) THEN {"ERROR"}
    ELSE IF ~Granted("read", "DockerAsset") THEN {"DENIED"}
    ELSE {"OK", "ERROR"}

ExecDownload ==
    /\ Running /\ CurCmd.op = "s3cp"
    /\ \E r \in DownloadResults :
         Step(r, [container EXCEPT !.files = @ \cup {Path(ArgB)}], registry)
    /\ UNCHANGED pushed

UnzipResults == IF Path(ArgA) \in container.files THEN {"OK", "ERROR"} ELSE {"ERROR"}

ExecUnzip ==
    /\ Running /\ CurCmd.op = "unzip"
    /\ \E r \in UnzipResults :
         Step(r, [container EXCEPT !.dirs = @ \cup {Path(ArgB)}], registry)
    /\ UNCHANGED pushed

CdResults == IF Path(ArgA) \in container.dirs THEN {"OK"} ELSE {"ERROR"}

ExecCd ==
    /\ Running /\ CurCmd.op = "cd"
    /\ \E r \in CdResults :
         Step(r, [container EXCEPT !.cwd = Path(ArgA)], registry)
    /\ UNCHANGED pushed

WellFormedRef(ref) == \E t \in ValidTags : ref = ActualUri \o ":" \o t

\* docker build -t <ref> . : the context is the working directory.
DockerBuildResults ==
    IF codebuild_project.privileged /\ container.cwd \in container.dirs /\ WellFormedRef(ArgA)
    THEN {"OK", "ERROR"} ELSE {"ERROR"}

Tagged(images, ref, digest, context) ==
    {i \in images : i.ref # ref} \cup {[ref |-> ref, digest |-> digest, context |-> context]}

ExecDockerBuild ==
    /\ Running /\ CurCmd.op = "build"
    /\ \E r \in DockerBuildResults :
         Step(r, [container EXCEPT !.images = Tagged(@, ArgA, nbuilds, container.cwd)],
              registry)
    /\ UNCHANGED pushed

LocalImage(ref) == {i \in container.images : i.ref = ref}

DockerTagResults ==
    IF LocalImage(ArgA) # {} /\ WellFormedRef(ArgB) THEN {"OK"} ELSE {"ERROR"}

ExecDockerTag ==
    /\ Running /\ CurCmd.op = "tag"
    /\ \E r \in DockerTagResults :
         Step(r, IF r = "OK"
                 THEN LET i == CHOOSE i \in LocalImage(ArgA) : TRUE
                      IN [container EXCEPT !.images = Tagged(@, ArgB, i.digest, i.context)]
                 ELSE container,
              registry)
    /\ UNCHANGED pushed

ExecAssign ==
    /\ Running /\ CurCmd.op = "assign"
    /\ Step("OK", [container EXCEPT !.shell = (ArgA :> ArgB) @@ @], registry)
    /\ UNCHANGED pushed

\* docker push <ref>: the image must exist locally under that reference, the
\* reference must name the deployed registry, and the daemon must hold
\* credentials for its host.
DockerPushResults ==
    IF LocalImage(ArgA) = {} \/ ~WellFormedRef(ArgA) \/ ~registry.exists THEN {"ERROR"}
    ELSE IF RegistryHost(account, region) \notin container.creds
              \/ ~Granted("pull_push", "ComfyUIRepository") THEN {"DENIED"}
    ELSE {"OK", "ERROR"}

TagOf(ref) == CHOOSE t \in ValidTags : ref = ActualUri \o ":" \o t

Pushed(reg, tag, digest) ==
    [reg EXCEPT !.images = @ \cup {digest},
                !.tags = {p \in @ : p[1] # tag} \cup {<<tag, digest>>}]

ExecDockerPush ==
    /\ Running /\ CurCmd.op = "push"
    /\ \E r \in DockerPushResults :
         /\ Step(r, container,
                 IF r = "OK"
                 THEN Pushed(registry, TagOf(ArgA), (CHOOSE i \in LocalImage(ArgA) : TRUE).digest)
                 ELSE registry)
         /\ pushed' = IF r = "OK"
                      THEN pushed \cup {<<ArgA, (CHOOSE i \in LocalImage(ArgA) : TRUE).digest>>}
                      ELSE pushed

Next ==
    \/ Deploy
    \/ StartBuild
    \/ ExecEcho
    \/ ExecLogin
    \/ ExecDownload
    \/ ExecUnzip
    \/ ExecCd
    \/ ExecDockerBuild
    \/ ExecDockerTag
    \/ ExecAssign
    \/ ExecDockerPush
    \/ Teardown

Spec == Init /\ [][Next]_vars


(* ------------------------------ claims -------------------------------- *)

LogIdx == 1..Len(log)
Ran(op_) == \E i \in LogIdx : log[i].op = op_
RanOk(op_) == \E i \in LogIdx : log[i].op = op_ /\ log[i].result = "OK"
Before(i, op_) == \E j \in 1..(i - 1) : log[j].op = op_
Phases == codebuild_project.build_spec.phases
Env == codebuild_project.environment_variables
AllCommands == Phases.pre_build \o Phases.build \o Phases.post_build
OpsOf(cs) == [i \in 1..Len(cs) |-> cs[i].op]
NotEcho(o) == o # "echo"
LogOps == [i \in LogIdx |-> log[i].op]
CommandsOf(op_) == {AllCommands[i] : i \in {j \in 1..Len(AllCommands) : AllCommands[j].op = op_}}

\* C1: in v1 the only reference ever built or pushed is <registry URI>:latest;
\* the build reference, the push reference, IMAGE_TAG and the returned
\* image_tag denote the same tag, and nothing is pushed that this execution
\* did not build.
C1_SingleFixedTag ==
    variant = "v1" =>
        /\ image_tag = "latest"
        /\ "IMAGE_TAG" \in DOMAIN Env /\ Env["IMAGE_TAG"] = image_tag
        /\ {c.a : c \in CommandsOf("build")} = {c.a : c \in CommandsOf("push")}
        /\ \A c \in CommandsOf("build") \cup CommandsOf("push") :
               Expand(c.a, Env) = ActualUri \o ":" \o image_tag
        /\ \A i \in LogIdx : log[i].op \in {"build", "push"} =>
               log[i].arg = ActualUri \o ":" \o image_tag
        /\ \A i \in LogIdx : (log[i].op = "push" /\ log[i].result = "OK") =>
               \E j \in 1..(i - 1) :
                   log[j].op = "build" /\ log[j].result = "OK" /\ log[j].arg = log[i].arg
        /\ \A p \in pushed : p[1] = ActualUri \o ":" \o image_tag
        /\ \A t \in registry.tags : t[1] = image_tag

C1_Witness == variant = "v1" /\ build.status = "SUCCEEDED" /\ RanOk("push") /\ nbuilds = 2

\* C2 (as claimed): the build-spec has exactly the phases pre_build, build and
\* post_build, and each phase's command list is exactly the documented one:
\* login, download, unpack; change directory, build; push.
C2_ExactCommandLists ==
    variant = "v1" =>
        /\ DOMAIN Phases = {"pre_build", "build", "post_build"}
        /\ OpsOf(Phases.pre_build) = <<"login", "s3cp", "unzip">>
        /\ OpsOf(Phases.build) = <<"cd", "build">>
        /\ OpsOf(Phases.post_build) = <<"push">>

\* C2 (amended): the build-spec has exactly the phases pre_build, build and
\* post_build, and each phase's commands other than its echo progress messages
\* are exactly the documented ones in the documented order; a build that
\* succeeds has run exactly those, in that order.
C2_DocumentedCommands ==
    variant = "v1" =>
        /\ DOMAIN Phases = {"pre_build", "build", "post_build"}
        /\ SelectSeq(OpsOf(Phases.pre_build), NotEcho) = <<"login", "s3cp", "unzip">>
        /\ SelectSeq(OpsOf(Phases.build), NotEcho) = <<"cd", "build">>
        /\ SelectSeq(OpsOf(Phases.post_build), NotEcho) = <<"push">>
        /\ build.status = "SUCCEEDED" =>
               SelectSeq(LogOps, NotEcho) = <<"login", "s3cp", "unzip", "cd", "build", "push">>

C2_Witness == variant = "v1" /\ build.status = "SUCCEEDED" /\ Len(log) = 12

\* C3: the grants made to the build project are exactly pull/push on the
\* construct's registry and read on the build-context asset, in every state.
C3_ExactGrants ==
    /\ \A g \in grants :
           /\ g.grantee = "ComfyUIBuildProject"
           /\ \/ g.actions = "pull_push" /\ g.resource = "ComfyUIRepository"
              \/ g.actions = "read" /\ g.resource = "DockerAsset"
    /\ \E g \in grants : g.actions = "pull_push" /\ g.resource = "ComfyUIRepository"
    /\ \E g \in grants : g.actions = "read" /\ g.resource = "DockerAsset"
    /\ Cardinality(grants) = 2

C3_Witness == variant = "v1" /\ stack = "DELETED" /\ RanOk("login") /\ RanOk("s3cp")

\* C4: in v1 the removal policy is destroy, and tearing the stack down always
\* ends with the registry and every image in it gone, however many images
\* earlier builds pushed; teardown is never blocked.
C4_TeardownDeletesRegistry ==
    variant = "v1" =>
        /\ ecr_repository.removal_policy = "DESTROY"
        /\ stack # "DELETE_FAILED"
        /\ stack = "DELETED" => (~registry.exists /\ registry.images = {} /\ registry.tags = {})

C4_Witness ==
    variant = "v1" /\ stack = "DELETED" /\ Cardinality({p[2] : p \in pushed}) >= 2

\* C5: the registry name is the literal "comfyui-repository" in v1 whatever
\* the scope and construct id; in v2 it is the template with the supplied
\* suffix, and another suffix gives another name.
C5_RegistryName ==
    /\ variant = "v1" => ecr_repository.repository_name = "comfyui-repository"
    /\ variant = "v2" =>
           /\ ecr_repository.repository_name = "comfyui-repository-" \o suffix
           /\ \A s \in Suffixes \ {suffix} :
                  RepositoryV2(s).repository_name # ecr_repository.repository_name

C5_Witness ==
    /\ variant = "v1" /\ scope = "SandboxStack" /\ construct_id = "Builder"
    /\ registry.exists /\ \E p \in pushed : p[1] = "111122223333.dkr.ecr.us-east-1.amazonaws.com/comfyui-repository:latest"

ResolvedTag == IF build.source_version = None THEN "latest" ELSE build.source_version

\* C6: in v2 the resolved tag is "latest" when the build has no source version
\* and the source version otherwise, and the post-build phase pushes both the
\* fixed tag and the resolved tag.
C6_ResolvedTag ==
    variant = "v2" =>
        /\ Ran("assign") => Lookup(container.shell, "IMAGE_TAG", "") = ResolvedTag
        /\ Ran("assign") =>
               {Expand(c.a, container.shell) :
                    c \in {Phases.post_build[i] : i \in {j \in 1..Len(Phases.post_build) :
                                                          Phases.post_build[j].op = "push"}}}
               = {ActualUri \o ":latest", ActualUri \o ":" \o ResolvedTag}
        /\ build.status = "SUCCEEDED" =>
               /\ {"latest", ResolvedTag} \subseteq {t[1] : t \in registry.tags}
               /\ \A r \in {ActualUri \o ":latest", ActualUri \o ":" \o ResolvedTag} :
                      \E i \in LogIdx : log[i].op = "push" /\ log[i].arg = r /\ log[i].result = "OK"

C6_Witness ==
    variant = "v2" /\ build.status = "SUCCEEDED" /\ build.source_version = "abc123"
    /\ Cardinality(registry.tags) = 2

\* C7: in every v1 build execution login precedes any push; download precedes
\* unpack, which precedes the change of directory, which precedes the image
\* build, which precedes the push; and the image is built in the unpacked
\* directory, not in the initial working directory.
C7_StepOrder ==
    variant = "v1" =>
        /\ \A i \in LogIdx :
               /\ log[i].op = "push" => (Before(i, "login") /\ Before(i, "build"))
               /\ log[i].op = "unzip" => Before(i, "s3cp")
               /\ log[i].op = "cd" => Before(i, "unzip")
               /\ log[i].op = "build" =>
                      (Before(i, "cd") /\ log[i].cwd = SrcDir \o "/docker-context")
        /\ \A img \in container.images : img.context = SrcDir \o "/docker-context"

C7_Witness ==
    variant = "v1" /\ RanOk("push") /\ \E img \in container.images : img.digest = 2

SomeFailed == \E i \in LogIdx : log[i].result # "OK"

\* C8: in a v1 build execution no command runs twice, a command that failed is
\* never run again, and a failure ends in the FAILED outcome with the registry
\* as it was when the execution started.
C8_NoRetry ==
    variant = "v1" =>
        /\ \A i, j \in LogIdx :
               i < j => <<log[i].phase, log[i].pc>> # <<log[j].phase, log[j].pc>>
        /\ \A i, j \in LogIdx :
               (i < j /\ log[i].result # "OK") => log[j].op # log[i].op
        /\ SomeFailed => build.status \in {"IN_PROGRESS", "FAILED"}
        /\ build.status = "FAILED" => SomeFailed
        /\ (SomeFailed /\ stack = "DEPLOYED") => registry = registryAtStart

C8_Witness ==
    /\ variant = "v1" /\ build.status = "FAILED" /\ registry.images # {}
    /\ \E i \in LogIdx : log[i].op = "push" /\ log[i].result = "ERROR" /\ Before(i, "build")

\* C9: the asset's bucket and key are passed to the build as variables and the
\* download reads exactly that object; every variable a build-spec command
\* references is declared in the project's environment variables.
C9_VariablesDeclared ==
    variant = "v1" =>
        /\ VarsOfCommands(AllCommands) \subseteq DOMAIN Env
        /\ VarsOfCommands(AllCommands) =
               {"ECR_REPOSITORY_URI", "IMAGE_TAG", "AWS_DEFAULT_REGION", "AWS_ACCOUNT_ID",
                "DOCKER_ASSET_S3_BUCKET", "DOCKER_ASSET_S3_KEY"}
        /\ \A c \in CommandsOf("s3cp") : Expand(c.a, Env) = AssetUrl(docker_asset)
        /\ \A i \in LogIdx : log[i].op = "s3cp" => log[i].arg = AssetUrl(docker_asset)

C9_Witness == variant = "v1" /\ RanOk("s3cp") /\ RanOk("unzip")

\* C10: every access the build-spec commands make is covered by a grant, the
\* host the login addresses is the host of ECR_REPOSITORY_URI, and no command
\* is denied access.
C10_GrantsSufficient ==
    variant = "v1" =>
        /\ \A c \in CommandsOf("login") :
               Expand(c.b, Env) \o "/" \o ecr_repository.repository_name
                   = Env["ECR_REPOSITORY_URI"]
        /\ Granted("pull_push", "ComfyUIRepository")
        /\ Granted("read", "DockerAsset")
        /\ \A i \in LogIdx : log[i].result # "DENIED"

====
